---- MODULE Spec2Model ----
(***************************************************************************)
(* vue-router-plugin-system: the per-router internals record, the two      *)
(* installation paths (createRouter / withInstall(...).install), the       *)
(* wrapped router.install with its runWithAppContext flush, and the        *)
(* wrapped app.unmount with its effect-scope stop and onUninstall drain.   *)
(*                                                                         *)
(* All library calls are synchronous, so one top-level call (createRouter, *)
(* Plugin.install(x), router.install(app), app.unmount()) is one action.   *)
(* What happened inside the call, in order, is recorded in `trace`.        *)
(***************************************************************************)
EXTENDS Integers, Sequences, FiniteSets, TLC

VARIABLES
  univ,     \* the routers, apps and plugins of this run (fixed by Init)
  rt,       \* per router: the router object and its internals record
  ap,       \* per app: $router, the wrappers around app.unmount
  pl,       \* per plugin function: the withInstall tag
  effects,  \* reactive effects created so far
  regs,     \* every onUninstall / runWithAppContext registration so far
  trace,    \* events of the last top-level call, in execution order
  last,     \* the last top-level call and how it ended
  steps     \* number of top-level calls made

vars == <<univ, rt, ap, pl, effects, regs, trace, last, steps>>

None == "none"

\* ---------------------------------------------------------------- bounds
MaxSteps == 4
MaxList == 2

\* ------------------------------------------------- plugin programs (input)
\* A function body is a sequence of operations on the plugin context.
Op(o, f) == [op |-> o, fn |-> f]

Code(f) ==
  CASE f = "PA" -> << Op("onUninstall", "UA"), Op("runWithAppContext", "HA"),
                      Op("effect", None) >>
    [] f = "PB" -> << Op("runWithAppContext", "HB"), Op("onUninstall", "UB"),
                      Op("runWithApp", "HI") >>
    [] f = "PT" -> << Op("onUninstall", "UT"), Op("runWithAppContext", "HT"),
                      Op("throw", None) >>
    [] f = "PX" -> << Op("runWithAppContext", "HX"), Op("onUninstall", "UX"),
                      Op("runWithAppContext", "HA") >>
    [] f = "PQ" -> << Op("onUninstall", "UA"), Op("effect", None) >>
    [] f = "PN" -> << Op("runWithAppContext", "HJ"), Op("runWithAppContext", "HA") >>
    [] f = "PM" -> << Op("runWithAppContext", "HM"), Op("effect", None) >>
    [] f = "HJ" -> << Op("install", "PM") >>
    [] f = "HM" -> << Op("effect", None) >>
    [] f = "HA" -> << Op("effect", None) >>
    [] f = "HB" -> << Op("runWithAppContext", "HN") >>
    [] f = "HI" -> << Op("install", "PQ") >>
    [] f = "HN" -> << Op("effect", None) >>
    [] f = "HT" -> << >>
    [] f = "HX" -> << Op("throw", None) >>
    [] f = "UX" -> << Op("throw", None) >>
    [] OTHER -> << >>

AllRouters == {"r1", "r2"}
AllApps == {"a1", "a2"}
AllPlugins == {"PA", "PB", "PT", "PX", "PQ", "PN", "PM"}

\* sequences over S of length at most n
RECURSIVE SeqsUpTo(_, _)
SeqsUpTo(S, n) ==
  IF n = 0 THEN { << >> }
  ELSE LET shorter == SeqsUpTo(S, n - 1)
       IN shorter \cup { Append(s, x) : s \in { t \in shorter : Len(t) = n - 1 }, x \in S }

MainUniv == [routers |-> {"r1"}, apps |-> {"a1", "a2"},
             plugins |-> {"PA", "PB", "PT", "PX"}]

PluginLists == SeqsUpTo(univ.plugins, MaxList)

\* ------------------------------------------------------------ the records
\* getInternals' fresh record, together with the router object's own state
FreshInternals ==
  [isInstallOverridden |-> FALSE,
   isPrepared          |-> FALSE,
   app                 |-> None,
   scopeActive         |-> TRUE,
   uninstallHandlers   |-> << >>,
   runWithAppHandlers  |-> << >>]

NoRouter ==
  [status       |-> "none",      \* "none" | "live" | "lost" (createRouter threw)
   hasInternals |-> FALSE,       \* router[INTERNALS_KEY] is set
   internals    |-> FreshInternals,
   installWraps |-> 0,           \* wrappers around the native router.install
   scopesMade   |-> 0,           \* effectScope(true) calls made for this router
   nativeCalls  |-> 0]           \* calls of the native router.install

NoApp ==
  [router       |-> None,        \* app.config.globalProperties.$router
   unmountChain |-> << >>,       \* routers whose prepareInstall wrapped unmount
   unmountCalls |-> 0,           \* calls of app.unmount
   unmounts     |-> 0]           \* calls of the native app.unmount

NoPlugin == [tagged |-> FALSE, assigns |-> 0]

Ev(e, id, f, r, a, how) ==
  [e |-> e, id |-> id, fn |-> f, r |-> r, a |-> a, how |-> how]

\* the state threaded through one synchronous call
Pack(op) == [rt |-> rt, ap |-> ap, pl |-> pl, effects |-> effects, regs |-> regs,
             trace |-> << >>, ok |-> TRUE, via |-> op]

Log(S, ev) == [S EXCEPT !.trace = Append(@, ev)]

Internals(S, r) == S.rt[r].internals

\* the router has been attached to some app by vue-router's own install
IsAttached(S, r) == S.rt[r].nativeCalls > 0

SetInt(S, r, f, v) == [S EXCEPT !.rt[r].internals[f] = v]

\* --------------------------------------------------------------- internals
\* getInternals(router): create the record on first access, then return it
\* (fault) no test of router[INTERNALS_KEY]: every access makes a new record
getInternalsFresh(S, r) ==
  [S EXCEPT !.rt[r].hasInternals = TRUE, !.rt[r].internals = FreshInternals,
            !.rt[r].scopesMade = @ + 1]

getInternals(S, r) ==
  IF ~S.rt[r].hasInternals
  THEN [S EXCEPT !.rt[r].hasInternals = TRUE, !.rt[r].internals = FreshInternals,
                 !.rt[r].scopesMade = @ + 1]
  ELSE S

\* (fault) the handler is put at the front of the list
PushUninstallFront(q, h) == << h >> \o q

\* ctx.onUninstall(handler): internals.uninstallHandlers.push(handler)
PushUninstall(q, h) == Append(q, h)

\* (fault) the handler is put at the front of the queue
PushRunWithAppFront(q, h) == << h >> \o q

\* internals.runWithAppHandlers.push(handler)
PushRunWithApp(q, h) == Append(q, h)

\* vue's EffectScope.run(fn): fn runs only while the scope is active
ScopeRuns(S, r) == Internals(S, r).scopeActive

\* (fault) one module-level scope serves every router: stopping it for one
\* router stops it for all
ScopeStopAll(S, r) ==
  LET S1 == [S EXCEPT !.rt = [x \in DOMAIN @ |->
                                [@[x] EXCEPT !.internals.scopeActive = FALSE]]]
      S2 == [S1 EXCEPT !.effects =
               [i \in DOMAIN @ |-> [@[i] EXCEPT !.active = FALSE]]]
  IN Log(S2, Ev("scopeStop", 0, None, r, None, None))

\* vue's EffectScope.stop(): the scope and every effect it captured go inactive
ScopeStop(S, r) ==
  LET S1 == SetInt(S, r, "scopeActive", FALSE)
      S2 == [S1 EXCEPT !.effects =
               [i \in DOMAIN @ |->
                  IF @[i].scope = r THEN [@[i] EXCEPT !.active = FALSE] ELSE @[i]]]
  IN Log(S2, Ev("scopeStop", 0, None, r, None, None))

\* withInstall(plugin): tag the plugin and give it an install operation, once
withInstall(S, p) ==
  IF S.pl[p].tagged THEN S
  ELSE [S EXCEPT !.pl[p] = [tagged |-> TRUE, assigns |-> @.assigns + 1]]

\* (fault) router.install is wrapped again on every request
overrideRouterInstallAgain(S, r) ==
  LET S1 == getInternals(S, r)
  IN [SetInt(S1, r, "isInstallOverridden", TRUE)
        EXCEPT !.rt[r].installWraps = @ + 1]

\* overrideRouterInstall(router): wrap router.install unless already wrapped
overrideRouterInstall(S, r) ==
  LET S1 == getInternals(S, r)
  IN IF Internals(S1, r).isInstallOverridden THEN S1
     ELSE [SetInt(S1, r, "isInstallOverridden", TRUE)
             EXCEPT !.rt[r].installWraps = @ + 1]

\* (fault) no isPrepared guard: every call records the app and wraps unmount
prepareInstallAgain(S, a, r) ==
  LET S1 == getInternals(S, r)
  IN [Log(SetInt(SetInt(S1, r, "isPrepared", TRUE), r, "app", a),
          Ev("prepare", 0, None, r, a, None))
        EXCEPT !.ap[a].unmountChain = Append(@, r)]

\* prepareInstall({app, router}): record the app and wrap app.unmount, once
prepareInstall(S, a, r) ==
  LET S1 == getInternals(S, r)
  IN IF Internals(S1, r).isPrepared THEN S1
     ELSE [Log(SetInt(SetInt(S1, r, "isPrepared", TRUE), r, "app", a),
               Ev("prepare", 0, None, r, a, None))
             EXCEPT !.ap[a].unmountChain = Append(@, r)]

\* ------------------------------------------- running plugin-supplied code
RECURSIVE Exec(_, _, _, _, _)
RECURSIVE RunHandler(_, _, _, _, _)
RECURSIVE runWithAppContext(_, _, _, _)
RECURSIVE runWithApp(_, _, _, _)
RECURSIVE setupPlugin(_, _, _)
RECURSIVE installOnRouter(_, _, _)

\* the wrapped handler of runWithAppContext, called with an app:
\* effectScope.run(() => app.runWithContext(() => rawHandler(app)))
RunHandler(S, r, h, a, how) ==
  IF ~ScopeRuns(S, r) THEN S
  ELSE LET S1 == [Log(S, Ev("handler", h.id, h.fn, r, a, how))
                    EXCEPT !.regs[h.id].execs = @ + 1]
       IN Exec(S1, r, Code(h.fn), 1, [how |-> how, scope |-> r, p |-> h.p])

\* (fault) the handler is queued even when an app is known
runWithAppContextDeferred(S, r, p, f) ==
  LET id == Len(S.regs) + 1
      h  == [id |-> id, fn |-> f, p |-> p]
      S1 == [S EXCEPT !.regs = Append(@,
               [kind |-> "runWithApp", fn |-> f, r |-> r, execs |-> 0,
                by |-> p, via |-> S.via,
                attached |-> IsAttached(S, r), queued |-> TRUE])]
  IN SetInt(S1, r, "runWithAppHandlers",
            PushRunWithApp(Internals(S1, r).runWithAppHandlers, h))

\* (fault) the handler is called at once, whether or not an app is known
runWithAppContextEager(S, r, p, f) ==
  LET id == Len(S.regs) + 1
      h  == [id |-> id, fn |-> f, p |-> p]
      a  == Internals(S, r).app
      S1 == [S EXCEPT !.regs = Append(@,
               [kind |-> "runWithApp", fn |-> f, r |-> r, execs |-> 0,
                by |-> p, via |-> S.via,
                attached |-> IsAttached(S, r), queued |-> FALSE])]
  IN RunHandler(S1, r, h, a, "immediate")

\* ctx.runWithAppContext(handler) (ctx.runWithApp delegates to it)
runWithAppContext(S, r, p, f) ==
  LET id == Len(S.regs) + 1
      h  == [id |-> id, fn |-> f, p |-> p]
      a  == Internals(S, r).app
      S1 == [S EXCEPT !.regs = Append(@,
               [kind |-> "runWithApp", fn |-> f, r |-> r, execs |-> 0,
                by |-> p, via |-> S.via,
                attached |-> IsAttached(S, r), queued |-> (a = None)])]
  IN IF a # None
     THEN RunHandler(S1, r, h, a, "immediate")
     ELSE SetInt(S1, r, "runWithAppHandlers",
                 PushRunWithApp(Internals(S1, r).runWithAppHandlers, h))

\* (fault) the deprecated runWithApp has its own code and forgets the queue:
\* without an app the handler is dropped
runWithAppNoQueue(S, r, p, f) ==
  LET id == Len(S.regs) + 1
      h  == [id |-> id, fn |-> f, p |-> p]
      a  == Internals(S, r).app
      S1 == [S EXCEPT !.regs = Append(@,
               [kind |-> "runWithApp", fn |-> f, r |-> r, execs |-> 0,
                by |-> p, via |-> S.via,
                attached |-> IsAttached(S, r), queued |-> FALSE])]
  IN IF a # None THEN RunHandler(S1, r, h, a, "immediate") ELSE S1

\* ctx.runWithApp(handler): ctx.runWithAppContext(handler)
runWithApp(S, r, p, f) == runWithAppContext(S, r, p, f)

\* ctx.onUninstall(handler)
onUninstall(S, r, p, f) ==
  LET id == Len(S.regs) + 1
      S1 == [S EXCEPT !.regs = Append(@,
               [kind |-> "onUninstall", fn |-> f, r |-> r, execs |-> 0,
                by |-> p, via |-> S.via,
                attached |-> IsAttached(S, r), queued |-> TRUE])]
  IN SetInt(S1, r, "uninstallHandlers",
            PushUninstall(Internals(S1, r).uninstallHandlers,
                          [id |-> id, fn |-> f, p |-> p]))

\* run the operations code[i..] of a function body; an exception (ok = FALSE)
\* abandons the rest
Exec(S, r, code, i, ctx) ==
  IF ~S.ok \/ i > Len(code) THEN S
  ELSE LET o == code[i]
           S1 == CASE o.op = "onUninstall" -> onUninstall(S, r, ctx.p, o.fn)
                   [] o.op = "runWithAppContext" ->
                        runWithAppContext(S, r, ctx.p, o.fn)
                   [] o.op = "runWithApp" -> runWithApp(S, r, ctx.p, o.fn)
                   [] o.op = "effect" ->
                        [S EXCEPT !.effects = Append(@,
                           [scope |-> ctx.scope, r |-> r, how |-> ctx.how,
                            active |-> TRUE])]
                   [] o.op = "install" -> installOnRouter(S, o.fn, r)
                   [] o.op = "throw" ->
                        [Log(S, Ev("throw", 0, None, r, None, ctx.how))
                           EXCEPT !.ok = FALSE]
       IN Exec(S1, r, code, i + 1, ctx)

\* setupPlugin({router, plugin}): run the plugin body in the shared scope
setupPlugin(S, r, p) ==
  LET S1 == getInternals(S, r)
  IN IF ~S1.ok \/ ~ScopeRuns(S1, r) THEN S1
     ELSE Exec(Log(S1, Ev("body", 0, p, r, None, "body")), r, Code(p), 1,
               [how |-> "body", scope |-> r, p |-> p])

\* withInstall(plugin).install(router)
installOnRouter(S, p, r) ==
  setupPlugin(overrideRouterInstall(withInstall(S, p), r), r, p)

\* ------------------------------------------------- router.install(app)
\* vue-router's own install: the app now knows its router
NativeInstall(S, r, a) ==
  [Log(S, Ev("nativeInstall", 0, None, r, a, None))
     EXCEPT !.rt[r].nativeCalls = @ + 1, !.ap[a].router = r]

\* internals.runWithAppHandlers.forEach(handler => handler(app)), from index
\* i up to the length n the array had when forEach started
RECURSIVE FlushFrom(_, _, _, _, _)

\* (fault) the flush hands the recorded internals.app to the handlers instead
\* of the app router.install was called with
FlushFromRecordedApp(S, r, a, i, n) ==
  IF ~S.ok \/ i > n THEN S
  ELSE LET q == Internals(S, r).runWithAppHandlers
       IN FlushFrom(IF i <= Len(q)
                    THEN RunHandler(S, r, q[i], Internals(S, r).app, "flush")
                    ELSE S,
                    r, a, i + 1, n)

\* (fault) the flush goes on with the next handlers after one has thrown
FlushFromOnError(S, r, a, i, n) ==
  IF i > n THEN S
  ELSE LET q == Internals(S, r).runWithAppHandlers
       IN FlushFrom(IF i <= Len(q) THEN RunHandler(S, r, q[i], a, "flush") ELSE S,
                    r, a, i + 1, n)

FlushFrom(S, r, a, i, n) ==
  IF ~S.ok \/ i > n THEN S
  ELSE LET q == Internals(S, r).runWithAppHandlers
       IN FlushFrom(IF i <= Len(q) THEN RunHandler(S, r, q[i], a, "flush") ELSE S,
                    r, a, i + 1, n)

\* ... followed by internals.runWithAppHandlers.length = 0
FlushRunWithApp(S, r, a) ==
  LET S1 == FlushFrom(S, r, a, 1, Len(Internals(S, r).runWithAppHandlers))
  IN IF ~S1.ok THEN S1
     ELSE Log(SetInt(S1, r, "runWithAppHandlers", << >>),
              Ev("clearRunWithApp", 0, None, r, a, None))

\* router.install(app) through n layers of the wrapper of
\* overrideRouterInstall; layer 0 is the native install
RECURSIVE CallInstall(_, _, _, _)

\* (fault) the wrapper calls the original install before it prepares
CallInstallNativeFirst(S, r, a, n) ==
  IF ~S.ok THEN S
  ELSE IF n = 0 THEN NativeInstall(S, r, a)
  ELSE LET S1 == CallInstall(S, r, a, n - 1)
           S2 == prepareInstall(S1, a, r)
       IN IF ~S2.ok THEN S2 ELSE FlushRunWithApp(S2, r, a)

CallInstall(S, r, a, n) ==
  IF ~S.ok THEN S
  ELSE IF n = 0 THEN NativeInstall(S, r, a)
  ELSE LET S1 == prepareInstall(S, a, r)
           S2 == CallInstall(S1, r, a, n - 1)
       IN IF ~S2.ok THEN S2 ELSE FlushRunWithApp(S2, r, a)

\* ------------------------------------------------------- app.unmount()
\* internals.uninstallHandlers.forEach(handler => handler())
RECURSIVE UninstallFrom(_, _, _, _)
UninstallFrom(S, r, i, n) ==
  IF ~S.ok \/ i > n THEN S
  ELSE LET q == Internals(S, r).uninstallHandlers
           S1 == IF i > Len(q) THEN S
                 ELSE Exec([Log(S, Ev("uninstall", q[i].id, q[i].fn, r, None, "uninstall"))
                              EXCEPT !.regs[q[i].id].execs = @ + 1],
                           r, Code(q[i].fn), 1,
                           [how |-> "uninstall", scope |-> None, p |-> q[i].p])
       IN UninstallFrom(S1, r, i + 1, n)

\* app.unmount() through the wrappers chain[1..k] that prepareInstall put
\* around it (the last one is the outermost); layer 0 is the native unmount
RECURSIVE CallUnmount(_, _, _)

\* (fault) the wrapper makes the record ready for a new attach:
\* internals.isPrepared = false
CallUnmountReset(S, a, k) ==
  IF ~S.ok THEN S
  ELSE IF k = 0
  THEN [Log(S, Ev("nativeUnmount", 0, None, None, a, None))
          EXCEPT !.ap[a].unmounts = @ + 1]
  ELSE LET r  == S.ap[a].unmountChain[k]
           S1 == ScopeStop(S, r)
           S2 == UninstallFrom(S1, r, 1, Len(Internals(S1, r).uninstallHandlers))
           S3 == SetInt(S2, r, "uninstallHandlers", << >>)
           S4 == SetInt(Log(S3, Ev("clearUninstall", 0, None, r, a, None)),
                        r, "runWithAppHandlers", << >>)
       IN IF ~S2.ok THEN S2
          ELSE CallUnmount(SetInt(S4, r, "isPrepared", FALSE), a, k - 1)

\* (fault) the wrapper forgets the app: internals.app = undefined
CallUnmountClearApp(S, a, k) ==
  IF ~S.ok THEN S
  ELSE IF k = 0
  THEN [Log(S, Ev("nativeUnmount", 0, None, None, a, None))
          EXCEPT !.ap[a].unmounts = @ + 1]
  ELSE LET r  == S.ap[a].unmountChain[k]
           S1 == ScopeStop(S, r)
           S2 == UninstallFrom(S1, r, 1, Len(Internals(S1, r).uninstallHandlers))
           S3 == SetInt(S2, r, "uninstallHandlers", << >>)
           S4 == SetInt(Log(S3, Ev("clearUninstall", 0, None, r, a, None)),
                        r, "runWithAppHandlers", << >>)
       IN IF ~S2.ok THEN S2 ELSE CallUnmount(SetInt(S4, r, "app", None), a, k - 1)

\* (fault) the native unmount is called even when an uninstall handler threw
CallUnmountFinally(S, a, k) ==
  IF ~S.ok THEN S
  ELSE IF k = 0
  THEN [Log(S, Ev("nativeUnmount", 0, None, None, a, None))
          EXCEPT !.ap[a].unmounts = @ + 1]
  ELSE LET r  == S.ap[a].unmountChain[k]
           S1 == ScopeStop(S, r)
           S2 == UninstallFrom(S1, r, 1, Len(Internals(S1, r).uninstallHandlers))
           S3 == SetInt(S2, r, "uninstallHandlers", << >>)
           S4 == SetInt(Log(S3, Ev("clearUninstall", 0, None, r, a, None)),
                        r, "runWithAppHandlers", << >>)
       IN IF ~S2.ok
          THEN [CallUnmount([S2 EXCEPT !.ok = TRUE], a, k - 1) EXCEPT !.ok = FALSE]
          ELSE CallUnmount(S4, a, k - 1)

\* (fault) the scope is stopped after the uninstall handlers instead of before
CallUnmountStopLast(S, a, k) ==
  IF ~S.ok THEN S
  ELSE IF k = 0
  THEN [Log(S, Ev("nativeUnmount", 0, None, None, a, None))
          EXCEPT !.ap[a].unmounts = @ + 1]
  ELSE LET r  == S.ap[a].unmountChain[k]
           S1 == UninstallFrom(S, r, 1, Len(Internals(S, r).uninstallHandlers))
           S2 == ScopeStop(S1, r)
           S3 == SetInt(S2, r, "uninstallHandlers", << >>)
           S4 == SetInt(Log(S3, Ev("clearUninstall", 0, None, r, a, None)),
                        r, "runWithAppHandlers", << >>)
       IN IF ~S1.ok THEN S1 ELSE CallUnmount(S4, a, k - 1)

CallUnmount(S, a, k) ==
  IF ~S.ok THEN S
  ELSE IF k = 0
  THEN [Log(S, Ev("nativeUnmount", 0, None, None, a, None))
          EXCEPT !.ap[a].unmounts = @ + 1]
  ELSE LET r  == S.ap[a].unmountChain[k]
           S1 == ScopeStop(S, r)
           S2 == UninstallFrom(S1, r, 1, Len(Internals(S1, r).uninstallHandlers))
           S3 == SetInt(S2, r, "uninstallHandlers", << >>)
           S4 == SetInt(Log(S3, Ev("clearUninstall", 0, None, r, a, None)),
                        r, "runWithAppHandlers", << >>)
       IN IF ~S2.ok THEN S2 ELSE CallUnmount(S4, a, k - 1)

\* ----------------------------------------------------- createRouter(options)
\* plugins.forEach(plugin => setupPlugin({router, plugin}))
RECURSIVE SetupAll(_, _, _, _)

\* (fault) an exception of a plugin is swallowed and the next plugin is set up
SetupAllContinue(S, r, list, i) ==
  IF i > Len(list) THEN S
  ELSE SetupAll([setupPlugin(S, r, list[i]) EXCEPT !.ok = TRUE], r, list, i + 1)

SetupAll(S, r, list, i) ==
  IF ~S.ok \/ i > Len(list) THEN S
  ELSE SetupAll(setupPlugin(S, r, list[i]), r, list, i + 1)

\* (fault) the first plugin of the list is skipped
createRouterSkipFirst(S, r, list) ==
  SetupAll(overrideRouterInstall(S, r), r, list, 2)

createRouter(S, r, list) ==
  SetupAll(overrideRouterInstall(S, r), r, list, 1)

\* (fault) a missing $router makes the install return silently
installOnAppSilent(S, p, a) ==
  LET S0 == withInstall(S, p)
      r  == S0.ap[a].router
  IN IF r = None THEN S0
     ELSE setupPlugin(prepareInstall(S0, a, r), r, p)

\* plugins.forEach(plugin => withInstall(plugin).install(router))
RECURSIVE BatchFrom(_, _, _, _)
BatchFrom(S, r, list, i) ==
  IF ~S.ok \/ i > Len(list) THEN S
  ELSE BatchFrom(installOnRouter(S, list[i], r), r, list, i + 1)

Reverse(list) == [i \in DOMAIN list |-> list[Len(list) + 1 - i]]

\* (fault) the list is walked from its end
batchInstallBackwards(S, r, list) == BatchFrom(S, r, Reverse(list), 1)

\* batchInstall(router, plugins)
batchInstall(S, r, list) == BatchFrom(S, r, list, 1)

\* the calls withInstall(list[1]).install(router), ..., withInstall(list[n])
\* .install(router) made one after the other by the caller; an exception of
\* one call ends the caller's sequence
RECURSIVE InstallEach(_, _, _, _)
InstallEach(S, r, list, n) ==
  IF n = 0 THEN S
  ELSE LET S1 == InstallEach(S, r, list, n - 1)
       IN IF ~S1.ok THEN S1 ELSE installOnRouter(S1, list[n], r)

\* withInstall(plugin).install(app): needs the app's $router
installOnApp(S, p, a) ==
  LET S0 == withInstall(S, p)
      r  == S0.ap[a].router
  IN IF r = None
     THEN [Log(S0, Ev("error", 0, p, None, a, "Please install vue-router first."))
             EXCEPT !.ok = FALSE]
     ELSE setupPlugin(prepareInstall(S0, a, r), r, p)

\* what isRouter looks at: which of the three properties the object has
Shapes == [install : BOOLEAN, options : BOOLEAN, currentRoute : BOOLEAN]

RouterShape == [install |-> TRUE, options |-> TRUE, currentRoute |-> TRUE]

\* a vue App has none of the three
AppShape == [install |-> FALSE, options |-> FALSE, currentRoute |-> FALSE]

\* (fault) an object with an install method is taken for a router
isRouterInstallOnly(sh) == sh.install

\* isRouter(instance)
isRouter(sh) == sh.install /\ sh.options /\ sh.currentRoute

\* withInstall(plugin).install(instance), instance being the object obj as it
\* looks (sh) at the call. An object that is not an App has no config, so
\* instance.config.globalProperties throws a TypeError.
install(S, p, obj, sh) ==
  IF isRouter(sh) THEN installOnRouter(S, p, obj)
  ELSE IF obj \in DOMAIN S.rt
  THEN [Log(withInstall(S, p), Ev("error", 0, p, obj, None, "TypeError"))
          EXCEPT !.ok = FALSE]
  ELSE installOnApp(S, p, obj)

\* --------------------------------------------------------------- actions
Commit(S, call) ==
  /\ rt' = S.rt
  /\ ap' = S.ap
  /\ pl' = S.pl
  /\ effects' = S.effects
  /\ regs' = S.regs
  /\ trace' = S.trace
  /\ last' = [call EXCEPT !.ok = S.ok, !.clean = last.clean /\ S.ok]
  /\ steps' = steps + 1
  /\ UNCHANGED univ

Call(op, r, a, p, list) ==
  [op |-> op, r |-> r, a |-> a, p |-> p, list |-> list, ok |-> TRUE,
   clean |-> TRUE]    \* clean: no top-level call has thrown so far

\* router = createRouter({..., plugins: list}) of this library
CreateRouter(r, list) ==
  /\ steps < MaxSteps
  /\ rt[r].status = "none"
  /\ LET S == createRouter(Pack("createRouter"), r, list)
     IN Commit([S EXCEPT !.rt[r].status = IF S.ok THEN "live" ELSE "lost"],
               Call("createRouter", r, None, None, list))

\* router = createRouter(options) of plain vue-router
PlainCreateRouter(r) ==
  /\ steps < MaxSteps
  /\ rt[r].status = "none"
  /\ Commit([Pack("plainCreateRouter") EXCEPT !.rt[r].status = "live"],
            Call("plainCreateRouter", r, None, None, << >>))

\* withInstall(p).install(router)
InstallOnRouter(p, r) ==
  /\ steps < MaxSteps
  /\ rt[r].status = "live"
  /\ Commit(installOnRouter(Pack("installOnRouter"), p, r), Call("installOnRouter", r, None, p, << >>))

\* withInstall(p).install(app), as app.use(Plugin) does
InstallOnApp(p, a) ==
  /\ steps < MaxSteps
  /\ Commit(installOnApp(Pack("installOnApp"), p, a), Call("installOnApp", None, a, p, << >>))

CallOn(obj, p, sh) ==
  [op |-> "install", r |-> IF obj \in univ.routers THEN obj ELSE None,
   a |-> IF obj \in univ.apps THEN obj ELSE None, p |-> p, list |-> << >>,
   ok |-> TRUE, clean |-> TRUE, shape |-> sh]

\* withInstall(p).install(instance) on a router object or an app object
Install(p, obj, sh) ==
  /\ steps < MaxSteps
  /\ obj \in univ.routers => rt[obj].status = "live"
  /\ Commit(install(Pack("install"), p, obj, sh), CallOn(obj, p, sh))

\* plugin p was handed a context for router r: its body ran there
HasContext(p, r) ==
  \E id \in DOMAIN regs : regs[id].r = r /\ regs[id].by = p

\* ctx.onUninstall(f), called by plugin p through the context it kept
CtxOnUninstall(r, p, f) ==
  /\ steps < MaxSteps
  /\ rt[r].status = "live" /\ HasContext(p, r)
  /\ Commit(onUninstall(Pack("ctx"), r, p, f),
            Call("ctxOnUninstall", r, None, p, << f >>))

\* ctx.runWithAppContext(f), called by plugin p through the context it kept
CtxRunWithAppContext(r, p, f) ==
  /\ steps < MaxSteps
  /\ rt[r].status = "live" /\ HasContext(p, r)
  /\ Commit(runWithAppContext(Pack("ctx"), r, p, f),
            Call("ctxRunWithAppContext", r, None, p, << f >>))

\* ctx.runWithApp(f), called by plugin p through the context it kept
CtxRunWithApp(r, p, f) ==
  /\ steps < MaxSteps
  /\ rt[r].status = "live" /\ HasContext(p, r)
  /\ Commit(runWithApp(Pack("ctx"), r, p, f),
            Call("ctxRunWithApp", r, None, p, << f >>))

\* getInternals(router), on its own
GetInternals(r) ==
  /\ steps < MaxSteps
  /\ rt[r].status = "live"
  /\ Commit(getInternals(Pack("getInternals"), r),
            Call("getInternals", r, None, None, << >>))

\* batchInstall(router, list)
BatchInstall(r, list) ==
  /\ steps < MaxSteps
  /\ rt[r].status = "live"
  /\ Commit(batchInstall(Pack("installOnRouter"), r, list),
            Call("batchInstall", r, None, None, list))

\* router.install(app), as app.use(router) does
RouterInstall(r, a) ==
  /\ steps < MaxSteps
  /\ rt[r].status = "live"
  /\ Commit(CallInstall(Pack("routerInstall"), r, a, rt[r].installWraps),
            Call("routerInstall", r, a, None, << >>))

\* app.unmount()
Unmount(a) ==
  /\ steps < MaxSteps
  /\ Commit(CallUnmount([Pack("unmount") EXCEPT !.ap[a].unmountCalls = @ + 1],
                        a, Len(ap[a].unmountChain)),
            Call("unmount", None, a, None, << >>))

InitWith(u) ==
  /\ univ = u
  /\ rt = [r \in u.routers |-> NoRouter]
  /\ ap = [a \in u.apps |-> NoApp]
  /\ pl = [p \in AllPlugins |-> NoPlugin]
  /\ effects = << >>
  /\ regs = << >>
  /\ trace = << >>
  /\ last = Call("init", None, None, None, << >>)
  /\ steps = 0

Init == InitWith(MainUniv)

Next ==
  \/ \E r \in univ.routers, list \in PluginLists : CreateRouter(r, list)
  \/ \E r \in univ.routers : PlainCreateRouter(r)
  \/ \E p \in univ.plugins, r \in univ.routers : InstallOnRouter(p, r)
  \/ \E p \in univ.plugins, a \in univ.apps : InstallOnApp(p, a)
  \/ \E r \in univ.routers, a \in univ.apps : RouterInstall(r, a)
  \/ \E a \in univ.apps : Unmount(a)

Spec == Init /\ [][Next]_vars

\* batch installs on a plain vue-router router
BatchUniv == [routers |-> {"r1"}, apps |-> {"a1"}, plugins |-> {"PB", "PX"}]

InitBatch == InitWith(BatchUniv)

NextBatch ==
  \/ \E r \in univ.routers : PlainCreateRouter(r)
  \/ \E r \in univ.routers, list \in PluginLists : BatchInstall(r, list)
  \/ \E r \in univ.routers, a \in univ.apps : RouterInstall(r, a)
  \/ \E a \in univ.apps : Unmount(a)

SpecBatch == InitBatch /\ [][NextBatch]_vars

\* installs that go through the dispatch of install(instance); the plugins
\* install nothing themselves, so each step holds one dispatch
ShapeUniv == [routers |-> {"r1"}, apps |-> {"a1"}, plugins |-> {"PA", "PX"}]

InitShape == InitWith(ShapeUniv)

NextShape ==
  \/ \E r \in univ.routers, list \in PluginLists : CreateRouter(r, list)
  \/ \E r \in univ.routers : PlainCreateRouter(r)
  \/ \E p \in univ.plugins, r \in univ.routers, sh \in Shapes : Install(p, r, sh)
  \/ \E p \in univ.plugins, a \in univ.apps : Install(p, a, AppShape)
  \/ \E r \in univ.routers, a \in univ.apps : RouterInstall(r, a)
  \/ \E a \in univ.apps : Unmount(a)

SpecShape == InitShape /\ [][NextShape]_vars

\* handlers that register handlers, or install plugins, while they are flushed
NestUniv == [routers |-> {"r1"}, apps |-> {"a1"}, plugins |-> {"PB", "PN"}]

InitNest == InitWith(NestUniv)

NextNest ==
  \/ \E r \in univ.routers, list \in PluginLists : CreateRouter(r, list)
  \/ \E p \in univ.plugins, r \in univ.routers : InstallOnRouter(p, r)
  \/ \E r \in univ.routers, a \in univ.apps : RouterInstall(r, a)
  \/ \E a \in univ.apps : Unmount(a)

SpecNest == InitNest /\ [][NextNest]_vars

\* plugins that use their context after their body has returned
CtxUniv == [routers |-> {"r1"}, apps |-> {"a1"}, plugins |-> {"PA", "PX"}]

InitCtx == InitWith(CtxUniv)

NextCtx ==
  \/ \E r \in univ.routers, list \in PluginLists : CreateRouter(r, list)
  \/ \E p \in univ.plugins, r \in univ.routers : InstallOnRouter(p, r)
  \/ \E r \in univ.routers, p \in univ.plugins, f \in {"UA", "UX"} :
        CtxOnUninstall(r, p, f)
  \/ \E r \in univ.routers, p \in univ.plugins, f \in {"HA", "HX"} :
        CtxRunWithAppContext(r, p, f)
  \/ \E r \in univ.routers, p \in univ.plugins, f \in {"HA", "HX"} :
        CtxRunWithApp(r, p, f)
  \/ \E r \in univ.routers, a \in univ.apps : RouterInstall(r, a)
  \/ \E a \in univ.apps : Unmount(a)

SpecCtx == InitCtx /\ [][NextCtx]_vars

\* two routers, each with its own record
TwoUniv == [routers |-> {"r1", "r2"}, apps |-> {"a1", "a2"},
            plugins |-> {"PA", "PX"}]

InitTwo == InitWith(TwoUniv)

SpecTwo == InitTwo /\ [][Next]_vars

\* accesses of the record between the other calls
AccessUniv == [routers |-> {"r1"}, apps |-> {"a1"}, plugins |-> {"PA", "PX"}]

InitAccess == InitWith(AccessUniv)

NextAccess ==
  \/ \E r \in univ.routers : PlainCreateRouter(r)
  \/ \E r \in univ.routers : GetInternals(r)
  \/ \E p \in univ.plugins, r \in univ.routers : InstallOnRouter(p, r)
  \/ \E p \in univ.plugins, a \in univ.apps : InstallOnApp(p, a)
  \/ \E r \in univ.routers, a \in univ.apps : RouterInstall(r, a)
  \/ \E a \in univ.apps : Unmount(a)

SpecAccess == InitAccess /\ [][NextAccess]_vars

\* bulk installs: createRouter with longer plugin lists, then attach and unmount
MaxBulk == 3

BulkUniv == [routers |-> {"r1"}, apps |-> {"a1"},
             plugins |-> {"PA", "PT", "PX"}]

InitBulk == InitWith(BulkUniv)

NextBulk ==
  \/ \E r \in univ.routers, list \in SeqsUpTo(univ.plugins, MaxBulk) :
        CreateRouter(r, list)
  \/ \E r \in univ.routers, a \in univ.apps : RouterInstall(r, a)
  \/ \E a \in univ.apps : Unmount(a)

SpecBulk == InitBulk /\ [][NextBulk]_vars

TypeOK ==
  /\ steps \in 0..MaxSteps
  /\ \A r \in univ.routers : rt[r].status \in {"none", "live", "lost"}

\* ============================================================ properties
Events(kind) == SelectSeq(trace, LAMBDA ev : ev.e = kind)
Flushed == SelectSeq(trace, LAMBDA ev : ev.e = "handler" /\ ev.how = "flush")
RegIds(kind) == { id \in DOMAIN regs : regs[id].kind = kind }
Increasing(q) == \A i, j \in DOMAIN q : i < j => q[i].id < q[j].id

\* C1: createRouter runs the body of every plugin of its list exactly once,
\* in list order, before it returns; when a body throws, the bodies that ran
\* are the list up to and including the throwing plugin.
C1_PluginsRunInListOrder ==
  last.op = "createRouter" =>
    LET b == Events("body")
    IN /\ Len(b) <= Len(last.list)
       /\ \A i \in DOMAIN b : b[i].fn = last.list[i] /\ b[i].r = last.r
       /\ last.ok => Len(b) = Len(last.list)

C1_Witness ==
  /\ last.op = "createRouter" /\ last.ok
  /\ Len(last.list) >= 2 /\ last.list[1] # last.list[2]
  /\ Len(Events("body")) = Len(last.list)

\* C2: a runWithApp/runWithAppContext handler registered while the router is
\* not attached has not been executed as long as router.install has not been
\* invoked on that router.
C2_DeferredUntilAttach ==
  \A id \in RegIds("runWithApp") :
    (~regs[id].attached /\ regs[id].execs > 0) => rt[regs[id].r].nativeCalls > 0

C2_Witness ==
  /\ last.op = "installOnRouter"
  /\ \E i, j \in RegIds("runWithApp") :
       /\ regs[i].via = "createRouter" /\ regs[j].via = "installOnRouter"
       /\ regs[i].r = regs[j].r /\ rt[regs[i].r].nativeCalls = 0
       /\ regs[i].queued /\ regs[j].queued
       /\ regs[i].execs = 0 /\ regs[j].execs = 0

\* C3: the handlers executed by the flush of router.install run in the order
\* of their runWithApp/runWithAppContext calls (registration ids ascend), all
\* of them were queued before attachment, and the pending queue itself is
\* kept in registration order.
C3_FlushInRegistrationOrder ==
  /\ Increasing(Flushed)
  /\ \A i \in DOMAIN Flushed : regs[Flushed[i].id].queued
  /\ \A r \in univ.routers : Increasing(rt[r].internals.runWithAppHandlers)

C3_Witness ==
  /\ last.op = "routerInstall" /\ last.ok
  /\ \E i, j, k \in DOMAIN Flushed :
       /\ i < j /\ j < k
       /\ regs[Flushed[i].id].by = regs[Flushed[k].id].by
       /\ regs[Flushed[i].id].by # regs[Flushed[j].id].by

Attached(r) == rt[r].nativeCalls > 0
Before(i, kind, r) == \E k \in 1..(i - 1) : trace[k].e = kind /\ trace[k].r = r

\* C4 (as claimed): every runWithApp/runWithAppContext call made after the
\* router was attached to an app runs its handler at once and does not queue it.
C4_ImmediateOnceAttached ==
  \A id \in RegIds("runWithApp") :
    regs[id].attached => (~regs[id].queued /\ regs[id].execs >= 1)

\* C5 (as claimed): whatever the order of Plugin.install(router) and
\* app.use(router), once the router is attached to an app and no call has
\* thrown, every handler given to runWithApp/runWithAppContext has been executed.
C5_HandlersRunOnceAttached ==
  last.clean =>
    \A id \in RegIds("runWithApp") : Attached(regs[id].r) => regs[id].execs >= 1

\* C6: in app.unmount() the scope of a router is stopped before any of its
\* onUninstall handlers runs, every registered handler has run when the list
\* is cleared, and the native unmount comes last, after every clearing;
\* a call that returns normally ends with the native unmount.
C6_UnmountSequence ==
  last.op = "unmount" =>
    /\ \A i \in DOMAIN trace :
         /\ trace[i].e = "uninstall" => Before(i, "scopeStop", trace[i].r)
         /\ trace[i].e = "clearUninstall" =>
              /\ Before(i, "scopeStop", trace[i].r)
              /\ \A k \in DOMAIN trace :
                   (trace[k].e = "uninstall" /\ trace[k].r = trace[i].r) => k < i
              /\ \A id \in RegIds("onUninstall") :
                   regs[id].r = trace[i].r => regs[id].execs >= 1
              /\ rt[trace[i].r].internals.uninstallHandlers = << >>
         /\ trace[i].e = "nativeUnmount" =>
              /\ i = Len(trace)
              /\ \A k \in DOMAIN ap[last.a].unmountChain :
                   Before(i, "clearUninstall", ap[last.a].unmountChain[k])
    /\ last.ok => (trace # << >> /\ trace[Len(trace)].e = "nativeUnmount")
    /\ \A r \in univ.routers :
         (\E k \in DOMAIN ap[last.a].unmountChain : ap[last.a].unmountChain[k] = r)
           => ~rt[r].internals.scopeActive

C6_Witness ==
  /\ last.op = "unmount" /\ last.ok
  /\ Len(Events("uninstall")) >= 2
  /\ Len(Events("scopeStop")) = 1
  /\ ap[last.a].unmounts = 1

\* C7: at unmount the onUninstall handlers of a router run in the order in
\* which they were registered (registration ids ascend), whichever plugins and
\* install paths registered them, and the list is kept in that order.
C7_UninstallInRegistrationOrder ==
  /\ \A r \in univ.routers :
       /\ Increasing(SelectSeq(trace, LAMBDA ev : ev.e = "uninstall" /\ ev.r = r))
       /\ Increasing(rt[r].internals.uninstallHandlers)

C7_Witness ==
  /\ last.op = "unmount"
  /\ \E i, j \in DOMAIN Events("uninstall") :
       /\ i < j
       /\ Events("uninstall")[i].r = Events("uninstall")[j].r
       /\ regs[Events("uninstall")[i].id].via # regs[Events("uninstall")[j].id].via
       /\ regs[Events("uninstall")[i].id].by # regs[Events("uninstall")[j].id].by

\* C8 (as claimed): no onUninstall handler runs before an app.unmount() call,
\* and each registration is invoked at most once, also over repeated unmount
\* calls and unmounts in which a handler throws.
C8_UninstallAtMostOnce ==
  \A id \in RegIds("onUninstall") :
    /\ regs[id].execs <= 1
    /\ regs[id].execs > 0 => \E a \in univ.apps : ap[a].unmountCalls > 0

\* C9 (as claimed): after app.unmount() of the app a router is attached to
\* (no call having thrown), the router's shared scope is stopped and every
\* onUninstall handler registered on it has run, whatever the order of
\* install and attach was.
C9_TeardownWhateverTheOrder ==
  (last.op = "unmount" /\ last.clean) =>
    \A id \in RegIds("onUninstall") :
      (ap[last.a].router = regs[id].r /\ rt[regs[id].r].nativeCalls = 1) =>
        (~rt[regs[id].r].internals.scopeActive /\ regs[id].execs >= 1)

\* C10 (as claimed): after app.unmount() of the app a router is attached to
\* (no call having thrown), no effect created in a plugin body or in an
\* immediate or flushed runWithAppContext handler of that router is active.
C10_NoEffectSurvivesUnmount ==
  (last.op = "unmount" /\ last.clean) =>
    \A i \in DOMAIN effects :
      ( /\ effects[i].how \in {"body", "immediate", "flush"}
        /\ ap[last.a].router = effects[i].r
        /\ rt[effects[i].r].nativeCalls = 1 ) => ~effects[i].active

\* C11: however often the override is requested (createRouter, install(router)),
\* router.install is wrapped at most once: the flag is set exactly when the
\* wrapper is in place, and once wrapped neither the wrapper (the identity of
\* router.install) nor the flag changes again.
C11_InstallWrappedOnce ==
  [][\A r \in univ.routers :
       /\ rt'[r].installWraps <= 1
       /\ rt'[r].internals.isInstallOverridden <=> (rt'[r].installWraps = 1)
       /\ rt[r].installWraps >= 1 =>
            /\ rt'[r].installWraps = rt[r].installWraps
            /\ rt'[r].internals.isInstallOverridden]_vars

C11_Witness ==
  /\ last.op = "installOnRouter"
  /\ rt[last.r].installWraps = 1 /\ rt[last.r].internals.isInstallOverridden
  /\ \E i, j \in DOMAIN regs :
       /\ regs[i].via = "createRouter" /\ regs[j].via = "installOnRouter"
       /\ regs[i].r = last.r /\ regs[j].r = last.r

BodiesOf(p, r) == SelectSeq(trace, LAMBDA ev : ev.e = "body" /\ ev.fn = p /\ ev.r = r)

\* C12 (as claimed): withInstall gives a plugin its install operation once,
\* however often it is applied, and a plugin wrapped k >= 1 times and then
\* installed on a router has its body run exactly once by that install.
C12_WrappedOnceRunsOnce ==
  /\ \A p \in univ.plugins : pl[p].assigns <= 1 /\ (pl[p].tagged <=> pl[p].assigns = 1)
  /\ last.op = "installOnRouter" => Len(BodiesOf(last.p, last.r)) = 1

\* C13: Plugin.install(app) on an app without a router fails with 'Please
\* install vue-router first.' and installs nothing: no body runs, no router
\* record, app record, registration or effect is created or changed.
C13_NoRouterNoInstall ==
  [][(last'.op = "installOnApp" /\ ap[last'.a].router = None) =>
       /\ ~last'.ok
       /\ trace' = << Ev("error", 0, last'.p, None, last'.a,
                         "Please install vue-router first.") >>
       /\ rt' = rt /\ ap' = ap /\ regs' = regs /\ effects' = effects]_vars

C13_Witness ==
  /\ last.op = "installOnApp" /\ ~last.ok
  /\ ap[last.a].router = None
  /\ Len(trace) = 1 /\ trace[1].e = "error"
  /\ \E r \in univ.routers :
       rt[r].hasInternals /\ rt[r].internals.runWithAppHandlers # << >>

Handlers == Events("handler")

\* C14: every execution of a runWithApp/runWithAppContext handler gets an app
\* the router is attached to: a flushed handler gets the app router.install
\* was called with, an immediate one the app recorded in the internals.
C14_HandlerGetsAttachedApp ==
  \A i \in DOMAIN Handlers :
    LET ev == Handlers[i]
    IN /\ ev.a \in univ.apps
       /\ ap[ev.a].router = ev.r
       /\ ev.how = "flush" => (last.op = "routerInstall" /\ ev.a = last.a)
       /\ ev.how = "immediate" => ev.a = rt[ev.r].internals.app

C14_Witness ==
  /\ last.op = "routerInstall" /\ last.ok
  /\ rt[last.r].internals.app = last.a
  /\ \E i, j \in DOMAIN Handlers :
       /\ Handlers[i].how = "flush" /\ Handlers[i].a = last.a
       /\ Handlers[j].how = "immediate" /\ Handlers[j].a = rt[last.r].internals.app

\* C15 (as claimed): each runWithApp/runWithAppContext registration has its
\* handler executed at most once, over any sequence of installs, router.install
\* calls (repeated ones and ones in which a queued handler throws) and unmounts.
C15_HandlerAtMostOnce ==
  \A id \in RegIds("runWithApp") : regs[id].execs <= 1

\* what the text of a plugin body registers before its first throw
Fns(q) == [i \in DOMAIN q |-> q[i].fn]
Throws(p) == \E i \in DOMAIN Code(p) : Code(p)[i].op = "throw"
ThrowAt(p) ==
  IF Throws(p)
  THEN CHOOSE i \in DOMAIN Code(p) :
         /\ Code(p)[i].op = "throw"
         /\ \A k \in 1..(i - 1) : Code(p)[k].op # "throw"
  ELSE Len(Code(p)) + 1
Registers(p, kinds) ==
  Fns(SelectSeq(SubSeq(Code(p), 1, ThrowAt(p) - 1), LAMBDA o : o.op \in kinds))
RECURSIVE RegistersAll(_, _, _)
RegistersAll(list, n, kinds) ==
  IF n = 0 THEN << >>
  ELSE RegistersAll(list, n - 1, kinds) \o Registers(list[n], kinds)
FirstThrower(list) ==
  IF \E i \in DOMAIN list : Throws(list[i])
  THEN CHOOSE i \in DOMAIN list :
         Throws(list[i]) /\ \A k \in 1..(i - 1) : ~Throws(list[k])
  ELSE 0

\* C16: when the body of a plugin of createRouter's list throws, the call ends
\* with that exception; the bodies that ran are the list up to the thrower,
\* none after it; and the router's record holds exactly what the plugins
\* before it registered plus what the thrower registered before its throw.
C16_BulkInstallStopsAtThrow ==
  (last.op = "createRouter" /\ FirstThrower(last.list) # 0) =>
    LET t == FirstThrower(last.list)
        I == rt[last.r].internals
    IN /\ ~last.ok
       /\ trace[Len(trace)].e = "throw"
       /\ Fns(Events("body")) = SubSeq(last.list, 1, t)
       /\ Fns(I.uninstallHandlers) = RegistersAll(last.list, t, {"onUninstall"})
       /\ Fns(I.runWithAppHandlers) =
            RegistersAll(last.list, t, {"runWithApp", "runWithAppContext"})

C16_Witness ==
  /\ last.op = "createRouter" /\ ~last.ok
  /\ Len(last.list) = 3 /\ FirstThrower(last.list) = 2
  /\ Len(Events("body")) = 2
  /\ Fns(rt[last.r].internals.uninstallHandlers) = << "UA", "UT" >>
  /\ Fns(rt[last.r].internals.runWithAppHandlers) = << "HA", "HT" >>

\* C17: when a handler throws during the flush of router.install, the call
\* ends with that exception at once: nothing runs after the throw, the
\* handlers queued behind the thrower are not executed by this flush and the
\* queue is left as it was.
C17_FlushStopsAtThrow ==
  [][(last'.op = "routerInstall" /\ Len(SelectSeq(trace', LAMBDA ev : ev.e = "throw")) > 0) =>
       LET q  == rt[last'.r].internals.runWithAppHandlers
           fl == SelectSeq(trace', LAMBDA ev : ev.e = "handler" /\ ev.how = "flush")
       IN /\ ~last'.ok
          /\ trace'[Len(trace')].e = "throw"
          /\ Len(SelectSeq(trace', LAMBDA ev : ev.e = "throw")) = 1
          /\ Len(fl) <= Len(q)
          /\ \A i \in DOMAIN fl : fl[i].id = q[i].id
          /\ \A i \in DOMAIN q :
               i > Len(fl) => regs'[q[i].id].execs = regs[q[i].id].execs
          /\ rt'[last'.r].internals.runWithAppHandlers = q]_vars

C17_Witness ==
  /\ last.op = "routerInstall" /\ ~last.ok
  /\ trace[Len(trace)].e = "throw"
  /\ \E i \in DOMAIN rt[last.r].internals.runWithAppHandlers :
       LET q == rt[last.r].internals.runWithAppHandlers
       IN /\ i > 1 /\ regs[q[i].id].execs = 0
          /\ regs[q[1].id].execs = 1 /\ q[1].id < q[i].id

\* C18: when an onUninstall handler throws during app.unmount(), the call ends
\* with that exception at once: the handlers registered behind the thrower do
\* not run in this unmount and the native unmount is not invoked.
C18_UnmountStopsAtThrow ==
  [][(last'.op = "unmount" /\ Len(SelectSeq(trace', LAMBDA ev : ev.e = "throw")) > 0) =>
       LET r  == trace'[Len(trace')].r
           q  == rt[r].internals.uninstallHandlers
           un == SelectSeq(trace', LAMBDA ev : ev.e = "uninstall" /\ ev.r = r)
       IN /\ ~last'.ok
          /\ trace'[Len(trace')].e = "throw"
          /\ Len(SelectSeq(trace', LAMBDA ev : ev.e = "nativeUnmount")) = 0
          /\ ap'[last'.a].unmounts = ap[last'.a].unmounts
          /\ Len(un) <= Len(q)
          /\ \A i \in DOMAIN un : un[i].id = q[i].id
          /\ \A i \in DOMAIN q :
               i > Len(un) => regs'[q[i].id].execs = regs[q[i].id].execs]_vars

C18_Witness ==
  /\ last.op = "unmount" /\ ~last.ok
  /\ trace[Len(trace)].e = "throw"
  /\ ap[last.a].unmounts = 0
  /\ \E r \in univ.routers :
       LET q == rt[r].internals.uninstallHandlers
       IN \E i, j \in DOMAIN q :
            /\ i < j /\ trace[Len(trace) - 1].id = q[i].id
            /\ regs[q[j].id].execs = 0

\* C19: batchInstall(router, [p1..pn]) does what the calls
\* withInstall(p1).install(router), ..., withInstall(pn).install(router) made
\* in list order do from the same state: the same router and app records
\* (flags, queues and their order), the same registrations and effects, the
\* same bodies and handlers run in the same order, the same outcome.
C19_BatchIsSequentialInstall ==
  [][last'.op = "batchInstall" =>
       LET S == InstallEach(Pack("installOnRouter"), last'.r, last'.list,
                            Len(last'.list))
       IN /\ rt' = S.rt /\ ap' = S.ap /\ pl' = S.pl
          /\ effects' = S.effects /\ regs' = S.regs
          /\ trace' = S.trace /\ last'.ok = S.ok]_vars

C19_Witness ==
  /\ last.op = "batchInstall" /\ last.ok
  /\ Len(last.list) = 2 /\ last.list[1] # last.list[2]
  /\ Len(Events("body")) >= 2
  /\ Len(rt[last.r].internals.runWithAppHandlers) >= 4
  /\ rt[last.r].internals.runWithAppHandlers[1].fn = Code(last.list[1])[1].fn

Count(q, f) == Len(SelectSeq(q, LAMBDA x : x.fn = f))

\* C20 (as claimed): nothing is deduplicated. Every install of a plugin on a
\* router that returns runs the plugin's body once more, whatever was
\* installed before (a list naming a plugin k times runs it k times), and an
\* unmount that completes runs a function as many times as onUninstall
\* registered it on the router.
C20_NoDeduplication ==
  [][/\ (last'.op \in {"installOnRouter", "installOnApp"} /\ last'.ok) =>
          Count(SelectSeq(trace', LAMBDA ev : ev.e = "body"), last'.p) = 1
     /\ (last'.op = "createRouter" /\ last'.ok) =>
          \A p \in univ.plugins :
            Count(SelectSeq(trace', LAMBDA ev : ev.e = "body"), p) = Len(SelectSeq(last'.list, LAMBDA x : x = p))
     /\ (last'.op = "unmount" /\ last'.ok) =>
          \A k \in DOMAIN ap[last'.a].unmountChain :
            LET r == ap[last'.a].unmountChain[k]
                q == rt[r].internals.uninstallHandlers
            IN \A f \in { q[i].fn : i \in DOMAIN q } :
                 Count(SelectSeq(trace', LAMBDA ev : ev.e = "uninstall" /\ ev.r = r), f)
                   = Count(q, f)]_vars

\* C21 (as claimed): withInstall(p).install(app) on an app that has a router
\* leaves the router's record prepared with that app recorded, runs p's body
\* once, executes every runWithAppContext handler registered during the call
\* immediately (none is queued), and does not invoke the native router.install.
C21_InstallOnAppPrepares ==
  [][(last'.op = "installOnApp" /\ ap[last'.a].router # None) =>
       LET r == ap[last'.a].router
       IN /\ rt'[r].internals.isPrepared
          /\ rt'[r].internals.app = last'.a
          /\ Count(SelectSeq(trace', LAMBDA ev : ev.e = "body"), last'.p) = 1
          /\ \A id \in (Len(regs) + 1)..Len(regs') :
               regs'[id].kind = "runWithApp" =>
                 /\ ~regs'[id].queued
                 /\ \E i \in DOMAIN trace' :
                      /\ trace'[i].e = "handler" /\ trace'[i].id = id
                      /\ trace'[i].how = "immediate"
          /\ rt'[r].nativeCalls = rt[r].nativeCalls
          /\ Len(SelectSeq(trace', LAMBDA ev : ev.e = "nativeInstall")) = 0]_vars

\* C22: install(instance) takes the router path exactly when the instance has
\* all of install, options and currentRoute: the router's install is wrapped
\* if it was not, nothing is prepared, and the installer runs the plugin in
\* the router's scope. Every other instance takes the app path: the lookup of
\* instance.config.globalProperties.$router fails on an object without config
\* or without a router and nothing is installed; with a router found, that
\* router is prepared (its install is not wrapped) and the installer runs.
C22_DispatchByShape ==
  [][last'.op = "install" =>
       LET sh == last'.shape
           bodies == Count(SelectSeq(trace', LAMBDA ev : ev.e = "body"), last'.p)
       IN IF sh.install /\ sh.options /\ sh.currentRoute
          THEN LET r == last'.r
               IN /\ rt'[r].internals.isInstallOverridden
                  /\ rt'[r].installWraps = rt[r].installWraps +
                       (IF rt[r].internals.isInstallOverridden THEN 0 ELSE 1)
                  /\ rt'[r].internals.isPrepared = rt[r].internals.isPrepared
                  /\ rt'[r].internals.app = rt[r].internals.app
                  /\ ap' = ap
                  /\ bodies = IF rt[r].internals.scopeActive THEN 1 ELSE 0
                  /\ Len(SelectSeq(trace', LAMBDA ev : ev.e = "error")) = 0
          ELSE IF last'.a = None \/ ap[last'.a].router = None
          THEN /\ ~last'.ok /\ bodies = 0
               /\ Len(trace') = 1 /\ trace'[1].e = "error"
               /\ rt' = rt /\ ap' = ap /\ regs' = regs /\ effects' = effects
          ELSE LET r == ap[last'.a].router
               IN /\ rt'[r].internals.isPrepared
                  /\ rt'[r].installWraps = rt[r].installWraps
                  /\ rt'[r].internals.isInstallOverridden
                       = rt[r].internals.isInstallOverridden
                  /\ rt'[r].nativeCalls = rt[r].nativeCalls
                  /\ bodies = IF rt[r].internals.scopeActive THEN 1 ELSE 0]_vars

\* an object with install and options but no currentRoute was handed to
\* install on a router whose install was never wrapped, and took the app path
C22_Witness ==
  /\ last.op = "install" /\ ~last.ok /\ last.r # None
  /\ last.shape.install /\ last.shape.options /\ ~last.shape.currentRoute
  /\ rt[last.r].installWraps = 0

\* C23 (as claimed): the pending runWithAppContext queue of a router is
\* non-empty only while no app is recorded in its record: in every state, and
\* after every step taken from a state with an app recorded, the queue of a
\* router with a recorded app is empty.
C23_QueueEmptyOnceAttached ==
  [][\A r \in univ.routers :
       /\ rt'[r].internals.app # None =>
            Len(rt'[r].internals.runWithAppHandlers) = 0
       /\ rt[r].internals.app # None =>
            Len(rt'[r].internals.runWithAppHandlers) = 0]_vars

\* the step is a call of the wrapped router.install on a router whose record
\* is prepared and which has been attached, with an app handle other than the
\* recorded one
Reattach ==
  /\ last'.op = "routerInstall"
  /\ rt[last'.r].installWraps > 0
  /\ rt[last'.r].internals.isPrepared /\ rt[last'.r].nativeCalls > 0
  /\ rt[last'.r].internals.app # last'.a

NativeInstalls(q) == SelectSeq(q, LAMBDA ev : ev.e = "nativeInstall")

\* C24 (as claimed): a second call of the wrapped router.install, with a
\* second app handle, re-runs the whole attach sequence: the second handle is
\* recorded as the router's app, the native install is invoked with it, the
\* pending queue is flushed, and an unmount interceptor is installed on the
\* second handle.
C24_ReattachRerunsAll ==
  [][Reattach =>
       LET r == last'.r
           a == last'.a
       IN /\ rt'[r].internals.app = a
          /\ Len(NativeInstalls(trace')) = 1 /\ NativeInstalls(trace')[1].a = a
          /\ last'.ok => Len(rt'[r].internals.runWithAppHandlers) = 0
          /\ Len(ap'[a].unmountChain) = Len(ap[a].unmountChain) + 1
          /\ ap'[a].unmountChain[Len(ap'[a].unmountChain)] = r]_vars

\* C24 (amended): such a call does not prepare again: the recorded app stays
\* the first one and no unmount interceptor is installed on the second
\* handle; the native install is invoked once, with the second handle, and
\* the pending queue is flushed with the second handle (in queue order, up to
\* a throwing handler) and left empty when the call returns.
C24_ReattachKeepsFirstApp ==
  [][Reattach =>
       LET r  == last'.r
           a  == last'.a
           q  == rt[r].internals.runWithAppHandlers
           fl == SelectSeq(trace', LAMBDA ev : ev.e = "handler" /\ ev.how = "flush")
       IN /\ rt'[r].internals.app = rt[r].internals.app
          /\ rt'[r].internals.isPrepared
          /\ ap'[a].unmountChain = ap[a].unmountChain
          /\ Len(NativeInstalls(trace')) = 1 /\ NativeInstalls(trace')[1].a = a
          /\ rt'[r].nativeCalls = rt[r].nativeCalls + 1
          /\ Len(fl) <= Len(q)
          /\ \A i \in DOMAIN fl : fl[i].id = q[i].id /\ fl[i].a = a
          /\ last'.ok => Len(rt'[r].internals.runWithAppHandlers) = 0]_vars

C24_Witness ==
  /\ last.op = "routerInstall" /\ last.ok
  /\ rt[last.r].installWraps > 0 /\ rt[last.r].nativeCalls = 2
  /\ rt[last.r].internals.app \notin {None, last.a}
  /\ Len(ap[last.a].unmountChain) = 0
  /\ ap[last.a].router = last.r

\* C25 (as claimed): the recorded app of a router's record is set when the
\* router becomes attached (the record is prepared with the app of the call)
\* and is absent after a completed unmount of that app.
C25_AppClearedOnUnmount ==
  [][/\ \A r \in univ.routers :
          (~rt[r].internals.isPrepared /\ rt'[r].internals.isPrepared) =>
             rt'[r].internals.app = last'.a /\ last'.a # None
     /\ (last'.op = "unmount" /\ last'.ok) =>
          \A r \in univ.routers :
            rt[r].internals.app = last'.a => rt'[r].internals.app = None]_vars

\* C25 (amended): the recorded app is set when the record becomes attached
\* (isPrepared turns true), to the app of that call, it is recorded exactly
\* while the record is attached, and no later call changes or clears it: it
\* is still recorded after the app was unmounted.
C25_AppKeptAfterUnmount ==
  [][\A r \in univ.routers :
       /\ (~rt[r].internals.isPrepared /\ rt'[r].internals.isPrepared) =>
             rt'[r].internals.app = last'.a /\ last'.a # None
       /\ rt'[r].internals.isPrepared <=> rt'[r].internals.app # None
       /\ rt[r].internals.app # None =>
             rt'[r].internals.app = rt[r].internals.app]_vars

C25_Witness ==
  /\ last.op = "unmount" /\ last.ok /\ ap[last.a].unmounts = 1
  /\ \E r \in univ.routers :
       /\ rt[r].internals.app = last.a /\ ~rt[r].internals.scopeActive
       /\ \E k \in DOMAIN ap[last.a].unmountChain : ap[last.a].unmountChain[k] = r

\* C26: the attached flag (isPrepared) of a router's record is false as long
\* as the record does not exist or nothing prepared it, and once true it is
\* true after every later call: it turns true at most once and never goes
\* back to false, whatever installs, attaches and unmounts follow.
C26_PreparedNeverReset ==
  [][\A r \in univ.routers :
       /\ ~rt[r].hasInternals => ~rt[r].internals.isPrepared
       /\ (rt[r].hasInternals' /\ ~rt[r].hasInternals /\ rt'[r].internals.isPrepared) =>
            last'.op \in {"routerInstall", "installOnApp"}
       /\ rt[r].internals.isPrepared => rt'[r].internals.isPrepared]_vars

\* a prepared router whose app was unmounted has been attached once more
C26_Witness ==
  /\ last.op = "routerInstall" /\ last.ok
  /\ rt[last.r].internals.isPrepared /\ ~rt[last.r].internals.scopeActive
  /\ rt[last.r].nativeCalls = 2
  /\ \E a \in univ.apps : ap[a].unmounts = 1

\* position of the first event of kind e in q, Len(q) + 1 when there is none
First(q, e) ==
  IF \E i \in DOMAIN q : q[i].e = e
  THEN CHOOSE i \in DOMAIN q : q[i].e = e /\ \A j \in 1..(i - 1) : q[j].e # e
  ELSE Len(q) + 1

\* the step is a call of the wrapped router.install
WrappedInstall == last'.op = "routerInstall" /\ rt[last'.r].installWraps > 0

\* the native install is invoked exactly once, with the router and app of the
\* call, and no pending handler is executed before it
NativeOnceBeforeFlush ==
  /\ Len(NativeInstalls(trace')) = 1
  /\ NativeInstalls(trace')[1].a = last'.a /\ NativeInstalls(trace')[1].r = last'.r
  /\ ap'[last'.a].router = last'.r
  /\ rt'[last'.r].nativeCalls = rt[last'.r].nativeCalls + 1
  /\ \A i \in DOMAIN trace' :
       trace'[i].e = "handler" => i > First(trace', "nativeInstall")

\* C27 (as claimed): in the wrapped router.install the app handle of the call
\* is recorded in the record before the native install is invoked, the native
\* install has completed before the first pending handler is executed, and
\* the native install is invoked exactly once, with the arguments of the call.
C27_RecordThenNativeThenFlush ==
  [][WrappedInstall =>
       /\ \/ rt[last'.r].internals.app = last'.a
          \/ /\ First(trace', "prepare") < First(trace', "nativeInstall")
             /\ trace'[First(trace', "prepare")].a = last'.a
       /\ rt'[last'.r].internals.app = last'.a
       /\ NativeOnceBeforeFlush]_vars

\* C27 (amended): in the wrapped router.install the record holds an app before
\* the native install is invoked: the handle of the call when the record was
\* not prepared yet, else the app recorded first, which is kept; the native
\* install has completed before the first pending handler is executed, and it
\* is invoked exactly once, with the arguments of the call.
C27_PrepareThenNativeThenFlush ==
  [][WrappedInstall =>
       /\ IF rt[last'.r].internals.isPrepared
          THEN /\ rt[last'.r].internals.app # None
               /\ rt'[last'.r].internals.app = rt[last'.r].internals.app
               /\ First(trace', "prepare") > Len(trace')
          ELSE /\ First(trace', "prepare") < First(trace', "nativeInstall")
               /\ trace'[First(trace', "prepare")].a = last'.a
               /\ rt'[last'.r].internals.app = last'.a
       /\ NativeOnceBeforeFlush]_vars

C27_Witness ==
  /\ last.op = "routerInstall" /\ last.ok /\ rt[last.r].installWraps > 0
  /\ Len(trace) >= 4
  /\ trace[1].e = "prepare" /\ trace[2].e = "nativeInstall"
  /\ trace[3].e = "handler" /\ trace[3].how = "flush" /\ trace[3].a = last.a
  /\ rt[last.r].internals.app = last.a

\* C28 (as claimed): after a completed app.unmount() both internal lists of
\* the app's router are empty: the onUninstall handler list and the pending
\* runWithAppContext queue. The app's router is the one that recorded the
\* app or, when it recorded none, the one the app was attached to.
C28_QueuesEmptyAfterUnmount ==
  (last.op = "unmount" /\ last.ok) =>
    \A r \in univ.routers :
      (\/ rt[r].internals.app = last.a
       \/ rt[r].internals.app = None /\ ap[last.a].router = r) =>
        /\ Len(rt[r].internals.uninstallHandlers) = 0
        /\ Len(rt[r].internals.runWithAppHandlers) = 0

\* C29: a router has exactly one effect scope for its whole life: it is made
\* when the record is first accessed and never again (also not after an
\* unmount stopped it), the record is never dropped, and every effect made by
\* a plugin body or a runWithAppContext handler of the router is captured by
\* that scope.
C29_OneScopePerRouter ==
  [][/\ \A r \in univ.routers :
          /\ rt'[r].scopesMade = IF rt'[r].hasInternals THEN 1 ELSE 0
          /\ rt[r].hasInternals =>
               rt'[r].hasInternals /\ rt'[r].scopesMade = rt[r].scopesMade
          /\ ~rt[r].internals.scopeActive => ~rt'[r].internals.scopeActive
     /\ \A i \in DOMAIN effects' :
          effects'[i].how \in {"body", "immediate", "flush"} =>
            effects'[i].scope = effects'[i].r]_vars

\* a plugin is installed on a router whose scope an unmount has stopped, and
\* the scope that captured the effects of a body and of a flushed handler is
\* still the only one
C29_Witness ==
  /\ last.op = "installOnRouter" /\ last.ok
  /\ rt[last.r].scopesMade = 1 /\ ~rt[last.r].internals.scopeActive
  /\ \E i, j \in DOMAIN effects :
       /\ effects[i].how = "body" /\ effects[j].how = "flush"
       /\ effects[i].scope = last.r /\ effects[j].scope = last.r

\* C30 (as claimed): every call of the installer runs the body of its plugin
\* exactly once before it returns, in every lifecycle state of the router
\* (before attach, after attach, after unmount): install(router) and
\* install(app) on an app with a router run the body of their plugin once,
\* whether or not it throws, and createRouter runs one body per installer
\* call it makes (the list up to a throwing plugin).
C30_InstallerRunsBodyOnce ==
  [][LET b == SelectSeq(trace', LAMBDA ev : ev.e = "body")
     IN /\ (\/ last'.op = "installOnRouter"
            \/ last'.op = "installOnApp" /\ ap[last'.a].router # None) =>
              /\ Count(b, last'.p) = 1
              /\ \E i \in DOMAIN b :
                   /\ b[i].fn = last'.p
                   /\ b[i].r = IF last'.op = "installOnRouter" THEN last'.r
                               ELSE ap[last'.a].router
        /\ last'.op = "createRouter" =>
              /\ Len(b) = IF last'.ok THEN Len(last'.list)
                          ELSE FirstThrower(last'.list)
              /\ \A i \in DOMAIN b : b[i].fn = last'.list[i]]_vars

\* the handlers whose code registers handler f, itself or through the plugin
\* it installs
Registrants(f) ==
  { g \in {"HA", "HB", "HI", "HJ", "HM", "HN", "HT", "HX"} :
      \E i \in DOMAIN Code(g) :
        \/ Code(g)[i].op \in {"runWithAppContext", "runWithApp"} /\ Code(g)[i].fn = f
        \/ /\ Code(g)[i].op = "install"
           /\ \E j \in DOMAIN Code(Code(g)[i].fn) :
                /\ Code(Code(g)[i].fn)[j].op \in {"runWithAppContext", "runWithApp"}
                /\ Code(Code(g)[i].fn)[j].fn = f }

\* position of the last flushed-handler event before position k, 0 if none
FlushBefore(q, k) ==
  IF \E j \in 1..(k - 1) : q[j].e = "handler" /\ q[j].how = "flush"
  THEN CHOOSE j \in 1..(k - 1) :
         /\ q[j].e = "handler" /\ q[j].how = "flush"
         /\ \A m \in (j + 1)..(k - 1) : ~(q[m].e = "handler" /\ q[m].how = "flush")
  ELSE 0

\* C31: a runWithAppContext call made while the wrapped router.install
\* flushes the queue (by a handler being flushed or by a plugin that handler
\* installs) executes its handler at once, with the recorded app, while the
\* flushed handler that caused it is still the current one and so before the
\* remaining queued handlers; it is never put on the queue.
C31_NestedRunsImmediately ==
  [][WrappedInstall =>
       \A id \in (Len(regs) + 1)..Len(regs') :
         regs'[id].kind = "runWithApp" =>
           /\ ~regs'[id].queued /\ regs'[id].execs = 1
           /\ \A i \in DOMAIN rt'[last'.r].internals.runWithAppHandlers :
                rt'[last'.r].internals.runWithAppHandlers[i].id # id
           /\ \E k \in DOMAIN trace' :
                /\ trace'[k].e = "handler" /\ trace'[k].id = id
                /\ trace'[k].how = "immediate"
                /\ trace'[k].a = rt'[last'.r].internals.app
                /\ FlushBefore(trace', k) > 0
                /\ trace'[FlushBefore(trace', k)].fn \in Registrants(regs'[id].fn)]_vars

C31_Witness ==
  /\ last.op = "routerInstall" /\ last.ok
  /\ \E k, m \in DOMAIN trace :
       /\ k < m
       /\ trace[k].e = "handler" /\ trace[k].fn = "HM" /\ trace[k].how = "immediate"
       /\ trace[k - 1].e = "body" /\ trace[k - 1].fn = "PM"
       /\ trace[m].e = "handler" /\ trace[m].fn = "HA" /\ trace[m].how = "flush"
  /\ Len(rt[last.r].internals.runWithAppHandlers) = 0

\* the wrappers this library has put around app.unmount for router r
UnmountWraps(r) ==
  { ak \in univ.apps \X (1..MaxSteps) :
      ak[2] \in DOMAIN ap[ak[1]].unmountChain /\ ap[ak[1]].unmountChain[ak[2]] = r }

\* C32: for each router the library wraps an app's unmount at most once,
\* however many plugins are installed through the router path and the app
\* path; so one call of that app's unmount stops the router's scope at most
\* once, walks the uninstall list at most once and calls the native unmount
\* at most once, and exactly once each when the call returns.
C32_UnmountWrappedOnce ==
  [][/\ \A r \in univ.routers :
          /\ Cardinality(UnmountWraps(r)') <= 1
          /\ rt'[r].internals.isPrepared <=> Cardinality(UnmountWraps(r)') = 1
     /\ last'.op = "unmount" =>
          /\ Len(SelectSeq(trace', LAMBDA ev : ev.e = "nativeUnmount")) =
               IF last'.ok THEN 1 ELSE 0
          /\ ap'[last'.a].unmounts = ap[last'.a].unmounts + (IF last'.ok THEN 1 ELSE 0)
          /\ \A r \in univ.routers :
               LET wrapped == \E ak \in UnmountWraps(r) : ak[1] = last'.a
                   q  == rt[r].internals.uninstallHandlers
                   un == SelectSeq(trace', LAMBDA ev : ev.e = "uninstall" /\ ev.r = r)
                   n(e) == Len(SelectSeq(trace', LAMBDA ev : ev.e = e /\ ev.r = r))
               IN IF wrapped
                  THEN /\ n("scopeStop") = 1
                       /\ n("clearUninstall") = IF last'.ok THEN 1 ELSE 0
                       /\ Len(un) <= Len(q)
                       /\ \A i \in DOMAIN un : un[i].id = q[i].id
                       /\ last'.ok => Len(un) = Len(q)
                  ELSE n("scopeStop") = 0 /\ Len(un) = 0]_vars

\* an app whose router got plugins through createRouter and through
\* install(app) has been unmounted: one wrapper, one walk over both handlers
C32_Witness ==
  /\ last.op = "unmount" /\ last.ok
  /\ Len(ap[last.a].unmountChain) = 1
  /\ Len(Events("uninstall")) = 2 /\ Len(Events("scopeStop")) = 1
  /\ \E i, j \in RegIds("onUninstall") :
       /\ regs[i].via = "createRouter" /\ regs[j].via = "installOnApp"
       /\ regs[i].execs = 1 /\ regs[j].execs = 1

\* C33: ctx.onUninstall(f) appends f to the uninstall list of the router and
\* does nothing else; ctx.runWithAppContext(f) on a router that is not
\* attached appends the wrapped f to the pending queue and does nothing else.
\* Neither invokes anything, and the flags, the recorded app, the scope, the
\* other list, the apps and the effects are as before.
C33_RegistrationOnlyAppends ==
  [][LET r  == last'.r
         h  == [id |-> Len(regs) + 1, fn |-> last'.list[1], p |-> last'.p]
         same == /\ \A x \in univ.routers \ {r} : rt'[x] = rt[x]
                 /\ ap' = ap /\ pl' = pl /\ effects' = effects
                 /\ Len(trace') = 0 /\ last'.ok
                 /\ Len(regs') = Len(regs) + 1
                 /\ \A id \in DOMAIN regs : regs'[id] = regs[id]
                 /\ regs'[Len(regs')].execs = 0
     IN /\ last'.op = "ctxOnUninstall" =>
             /\ rt'[r] = [rt[r] EXCEPT !.internals.uninstallHandlers = Append(@, h)]
             /\ same
        /\ (last'.op = "ctxRunWithAppContext" /\ rt[r].nativeCalls = 0) =>
             /\ rt'[r] = [rt[r] EXCEPT !.internals.runWithAppHandlers = Append(@, h)]
             /\ same]_vars

C33_Witness ==
  /\ last.op = "ctxRunWithAppContext" /\ rt[last.r].nativeCalls = 0
  /\ Len(rt[last.r].internals.runWithAppHandlers) >= 2
  /\ Len(rt[last.r].internals.uninstallHandlers) >= 2
  /\ regs[Len(regs) - 1].via = "ctx" /\ regs[Len(regs) - 1].kind = "onUninstall"
  /\ regs[Len(regs)].via = "ctx" /\ regs[Len(regs)].execs = 0

\* the routers a step is about: the router of the call, the router of the app
\* install(app) is given, the routers whose wrappers the unmounted app carries
Targets ==
  IF last'.r # None THEN {last'.r}
  ELSE IF last'.op = "installOnApp" THEN {ap[last'.a].router} \ {None}
  ELSE IF last'.op = "unmount"
  THEN { ap[last'.a].unmountChain[k] : k \in DOMAIN ap[last'.a].unmountChain }
  ELSE {}

\* C34: the records of distinct routers are independent: a call about one
\* router (create, install of a plugin, attach, unmount of its app) leaves
\* the whole record of every other router as it was, executes none of the
\* other router's handlers and touches none of its effects, also when the
\* same plugin function is installed on both.
C34_RoutersIndependent ==
  [][\A r2 \in univ.routers \ Targets :
       /\ rt'[r2] = rt[r2]
       /\ \A i \in DOMAIN trace' : trace'[i].r # r2
       /\ \A id \in DOMAIN regs : regs[id].r = r2 => regs'[id] = regs[id]
       /\ \A id \in DOMAIN regs' : id > Len(regs) => regs'[id].r # r2
       /\ \A i \in DOMAIN effects : effects[i].r = r2 => effects'[i] = effects[i]
       /\ \A i \in DOMAIN effects' : i > Len(effects) => effects'[i].r # r2]_vars

\* the same plugin is on both routers; one router was attached and its app
\* unmounted, the other still holds its queued handler and its live scope
C34_Witness ==
  /\ last.op = "unmount" /\ last.ok
  /\ \E r1, r2 \in univ.routers :
       /\ r1 # r2
       /\ rt[r1].internals.app = last.a /\ ~rt[r1].internals.scopeActive
       /\ rt[r2].internals.scopeActive /\ rt[r2].internals.app = None
       /\ Len(rt[r2].internals.runWithAppHandlers) = 1
       /\ Len(rt[r2].internals.uninstallHandlers) = 1
       /\ \E i, j \in RegIds("onUninstall") :
            /\ regs[i].r = r1 /\ regs[j].r = r2 /\ regs[i].by = regs[j].by
            /\ regs[i].execs = 1 /\ regs[j].execs = 0

\* what a call of the context operation op (the step just taken) did: with no
\* app recorded the wrapped handler went to the end of the pending queue and
\* nothing ran; with an app recorded nothing was queued and the handler ran at
\* once with that app, inside the router's scope (not at all when the scope
\* was stopped)
DecidedByApp(op) ==
  last'.op = op =>
    LET r  == last'.r
        id == Len(regs) + 1
        h  == [id |-> id, fn |-> last'.list[1], p |-> last'.p]
        a  == rt[r].internals.app
    IN /\ Len(regs') = id /\ regs'[id].kind = "runWithApp" /\ regs'[id].r = r
       /\ IF a = None
          THEN /\ rt'[r].internals.runWithAppHandlers =
                    Append(rt[r].internals.runWithAppHandlers, h)
               /\ regs'[id].queued /\ regs'[id].execs = 0
               /\ Len(trace') = 0 /\ effects' = effects
          ELSE /\ rt'[r].internals.runWithAppHandlers = rt[r].internals.runWithAppHandlers
               /\ ~regs'[id].queued
               /\ IF rt[r].internals.scopeActive
                  THEN /\ regs'[id].execs = 1
                       /\ trace'[1] = Ev("handler", id, h.fn, r, a, "immediate")
                       /\ \A i \in DOMAIN effects' :
                            i > Len(effects) => effects'[i].scope = r
                  ELSE regs'[id].execs = 0 /\ Len(trace') = 0

\* C35: the context of a plugin is bound to the router the plugin is
\* installed on (whatever the plugin registers lands in that router's
\* record) and offers onUninstall, runWithAppContext and runWithApp; the
\* deprecated runWithApp does what runWithAppContext does: same queue, same
\* decision between running at once and queuing, same scope and app.
C35_RunWithAppIsRunWithAppContext ==
  [][/\ DecidedByApp("ctxRunWithApp")
     /\ DecidedByApp("ctxRunWithAppContext")
     /\ last'.op \in {"createRouter", "installOnRouter"} =>
          /\ \A i \in DOMAIN trace' : trace'[i].r = last'.r
          /\ \A id \in (Len(regs) + 1)..Len(regs') : regs'[id].r = last'.r]_vars

\* runWithApp has queued a handler behind one queued by runWithAppContext
C35_Witness ==
  /\ last.op = "ctxRunWithApp" /\ rt[last.r].internals.app = None
  /\ regs[Len(regs)].queued
  /\ \E n \in DOMAIN rt[last.r].internals.runWithAppHandlers :
       /\ n = Len(rt[last.r].internals.runWithAppHandlers) /\ n >= 2
       /\ rt[last.r].internals.runWithAppHandlers[n].id = Len(regs)
       /\ regs[rt[last.r].internals.runWithAppHandlers[n - 1].id].via = "ctx"

\* C36: getInternals is idempotent. The first access for a router makes a
\* record with isInstallOverridden = false, isPrepared = false, no app, a new
\* active scope, an empty uninstall list and an empty pending queue; every
\* later access gives the record as it is and changes nothing, so a second
\* access right after any access changes nothing either.
C36_GetInternalsIdempotent ==
  [][/\ last'.op = "getInternals" =>
          LET r == last'.r
          IN /\ IF rt[r].hasInternals THEN rt' = rt
                ELSE /\ rt'[r].hasInternals /\ rt'[r].scopesMade = 1
                     /\ rt'[r].internals =
                          [isInstallOverridden |-> FALSE, isPrepared |-> FALSE,
                           app |-> None, scopeActive |-> TRUE,
                           uninstallHandlers |-> << >>,
                           runWithAppHandlers |-> << >>]
                     /\ rt'[r].installWraps = rt[r].installWraps
                     /\ rt'[r].nativeCalls = rt[r].nativeCalls
             /\ ap' = ap /\ pl' = pl /\ effects' = effects /\ regs' = regs
             /\ Len(trace') = 0 /\ last'.ok
     /\ \A r \in univ.routers :
          LET S == getInternals(Pack("getInternals"), r)
          IN getInternals(S, r) = S]_vars

\* the record of a router that has been used (wrapped install, registered
\* handlers) is accessed again
C36_Witness ==
  /\ last.op = "getInternals"
  /\ rt[last.r].hasInternals /\ rt[last.r].scopesMade = 1
  /\ rt[last.r].internals.isInstallOverridden
  /\ Len(rt[last.r].internals.uninstallHandlers) >= 1
  /\ Len(rt[last.r].internals.runWithAppHandlers) >= 1

====
